---- MODULE Spec2Model ----
(***************************************************************************)
(* Podcastfy FastAPI facade (src/main.py): configuration merging, the      *)
(* /generate request handler, the artifact store and the event loop that   *)
(* runs the handlers.                                                      *)
(*                                                                         *)
(* Python values: scalars and opaque lists are strings, None is the string *)
(* "None", a dict is a function from its keys.  A dict that is shared by   *)
(* reference (the text_to_speech sub-map, which dict.copy() does not       *)
(* duplicate) lives in a heap and is named by its address.                 *)
(***************************************************************************)
EXTENDS Integers, Sequences, FiniteSets, TLC

VARIABLES
    arg_base,     \* merge_configs call under test: the base_config argument (top level)
    arg_user,     \* merge_configs call under test: the user_config argument (top level)
    heap,         \* address -> the text_to_speech dict object stored there
    ret,          \* value returned by the merge_configs call, NotCalled before it
    before,       \* the arguments and the heap as they were when the call was made
    config_file,  \* podcastfy/conversation_config.yaml as it is on disk
    environ,      \* os.environ, the three credential variables
    temp_dir,     \* TEMP_DIR: filename -> content of the stored artifact
    conn,         \* per client connection: the request in flight and its response
    workload,     \* the /generate bodies the clients of this run post
    supplied,     \* history: per provider, the last non-empty credential a request gave
    served        \* history: the filenames returned in a 200 audioUrl

mvars == <<arg_base, arg_user, heap, ret, before>>
svars == <<config_file, environ, temp_dir, conn, workload, supplied, served>>
vars == <<arg_base, arg_user, heap, ret, before,
          config_file, environ, temp_dir, conn, workload, supplied, served>>

----------------------------------------------------------------------------
(* Bounds *)

MaxVal == 2        \* scalar values "1" .. "MaxVal" in the merge_configs inputs
MaxCred == 2       \* credential strings "k1" .. "kMaxCred"
NumConns == 2      \* client connections
NumNames == 2      \* distinct outcomes of os.urandom(8).hex()
MaxFields == 1     \* credential fields one /generate body carries

----------------------------------------------------------------------------
(* Python values *)

None == "None"
EmptyDict == [k \in {} |-> None]
TTS == "text_to_speech"

\* dict.get(k, default)
Get(d, k, default) == IF k \in DOMAIN d THEN d[k] ELSE default

\* dict.update(other) seen as a value: the keys of both, other's values winning
UpdateBaseWins(d, other) ==
    [k \in DOMAIN d \cup DOMAIN other |-> IF k \in DOMAIN d THEN d[k] ELSE other[k]]

Update(d, other) ==
    [k \in DOMAIN d \cup DOMAIN other |-> IF k \in DOMAIN other THEN other[k] ELSE d[k]]

\* Python truthiness of a string-or-None value
Truthy(v) == v # None /\ v # ""

----------------------------------------------------------------------------
(* merge_configs, src/main.py:29-43 *)

\* line 31, base_config.copy(): a new top-level dict holding the same values,
\* so the text_to_speech entry is the same address as in base_config
ShallowCopy(base_config) == base_config

\* lines 34-35: the dict at merged['text_to_speech'] is updated in place
TtsUpdate(h, merged, user_config) ==
    IF TTS \in DOMAIN merged /\ TTS \in DOMAIN user_config
    THEN [h EXCEPT ![merged[TTS]] = Update(@, h[Get(user_config, TTS, EmptyDict)])]
    ELSE h

\* lines 38-41 with the None test left out
TopLevelUpdateNoNoneTest(merged, user_config) ==
    LET set == {k \in DOMAIN user_config : k # TTS}
    IN  [k \in DOMAIN merged \cup set |-> IF k \in set THEN user_config[k] ELSE merged[k]]

\* lines 38-41: every other key of user_config whose value is not None
TopLevelUpdate(merged, user_config) ==
    LET set == {k \in DOMAIN user_config : k # TTS /\ user_config[k] # None}
    IN  [k \in DOMAIN merged \cup set |-> IF k \in set THEN user_config[k] ELSE merged[k]]

\* the call: the returned top-level dict and the heap it leaves behind
merge_configs(base_config, user_config, h) ==
    LET merged == ShallowCopy(base_config)
    IN  [merged |-> TopLevelUpdate(merged, user_config),
         heap   |-> TtsUpdate(h, merged, user_config)]

\* a top-level dict with its text_to_speech entry read through the heap
Deref(top, h) == [k \in DOMAIN top |-> IF k = TTS THEN h[top[k]] ELSE top[k]]

----------------------------------------------------------------------------
(* Inputs of the merge_configs calls under test *)

Vals == {ToString(i) : i \in 1..MaxVal}
OtherKeys == {"creativity", "podcast_name"}
BaseSubKeys == {"a", "b"}
UserSubKeys == {"b", "c"}
BaseAddr == "base_tts"
UserAddr == "user_tts"
NotCalled == [called |-> FALSE, merged |-> EmptyDict]

\* every dict with keys among K and values among V
Dicts(K, V) == UNION {[D -> V] : D \in SUBSET K}

\* top-level dicts: scalar entries, and optionally a text_to_speech entry at addr
TopDicts(addr) ==
    {d \in Dicts(OtherKeys \cup {TTS}, Vals \cup {None, addr}) :
        \A k \in DOMAIN d : (k = TTS) <=> (d[k] = addr)}

MergeInit ==
    /\ arg_base \in TopDicts(BaseAddr)
    /\ arg_user \in TopDicts(UserAddr)
    /\ \E hb \in Dicts(BaseSubKeys, Vals \cup {None}),
          hu \in Dicts(UserSubKeys, Vals \cup {None}) :
          /\ (TTS \notin DOMAIN arg_base => hb = EmptyDict)
          /\ (TTS \notin DOMAIN arg_user => hu = EmptyDict)
          /\ heap = (BaseAddr :> hb) @@ (UserAddr :> hu)
    /\ ret = NotCalled
    /\ before = [base |-> arg_base, user |-> arg_user, heap |-> heap]

\* merged = merge_configs(arg_base, arg_user)
CallMerge ==
    /\ ret = NotCalled
    /\ LET r == merge_configs(arg_base, arg_user, heap)
       IN  /\ ret' = [called |-> TRUE, merged |-> r.merged]
           /\ heap' = r.heap
    /\ UNCHANGED <<arg_base, arg_user, before>>

----------------------------------------------------------------------------
(* load_base_config, src/main.py:19-27 *)

\* the parsed document, or {} when the file cannot be opened or parsed
load_base_config(file) == IF file.readable THEN file.doc ELSE EmptyDict

----------------------------------------------------------------------------
(* generate_podcast_endpoint, src/main.py:65-141: the steps before the call *)

Providers == {"OPENAI_API_KEY", "GEMINI_API_KEY", "ELEVENLABS_API_KEY"}
Unset == "<unset>"

\* the request field each credential variable is read from (lines 70, 74, 78)
FieldOf(var) ==
    CASE var = "OPENAI_API_KEY" -> "openai_key"
      [] var = "GEMINI_API_KEY" -> "google_key"
      [] var = "ELEVENLABS_API_KEY" -> "elevenlabs_key"

\* lines 70-72 without the truthiness test
SetCredentialAlways(env, data, var) ==
    [env EXCEPT ![var] = Get(data, FieldOf(var), None)]

\* lines 70-72 (74-76, 78-80): key = data.get(field); if key: os.environ[var] = key
SetCredential(env, data, var) ==
    LET key == Get(data, FieldOf(var), None)
    IN  IF Truthy(key) THEN [env EXCEPT ![var] = key] ELSE env

\* lines 70-80
SetCredentials(env, data) ==
    SetCredential(
        SetCredential(SetCredential(env, data, "OPENAI_API_KEY"), data, "GEMINI_API_KEY"),
        data, "ELEVENLABS_API_KEY")

\* exceptions: their class and the text str(e) gives for a plain exception
NoError == [type |-> "none", msg |-> ""]
Error(t, m) == [type |-> t, msg |-> m]

\* float(v) of line 95: None raises TypeError, a non-numeric string ValueError
Numeric == {"0.7", "0.9", "1", "1.0"}
FloatRaises(v) == v \notin Numeric
FloatError(v) ==
    IF v = None
    THEN Error("TypeError", "float() argument must be a string or a real number, not 'NoneType'")
    ELSE Error("ValueError", "could not convert string to float: '" \o v \o "'")
Float(v) == IF v = "1" THEN "1.0" ELSE v

\* line 86
ResolveTtsModel(data, base_config) ==
    Get(data, "tts_model",
        Get(Get(base_config, TTS, EmptyDict), "default_tts_model", "openai"))

\* line 87
TtsBaseConfig(base_config, tts_model) ==
    Get(Get(base_config, TTS, EmptyDict), tts_model, EmptyDict)

\* lines 90-91 and 109-110: one role's voice
ResolveVoice(data, tts_base_config, role) ==
    LET voices == Get(data, "voices", EmptyDict)
        default_voices == Get(tts_base_config, "default_voices", EmptyDict)
    IN  Get(voices, role, Get(default_voices, role, None))

\* lines 94-113, user_config; creativity is converted by the caller's float()
UserConfig(data, base_config) ==
    LET tts_model == ResolveTtsModel(data, base_config)
        tts_base_config == TtsBaseConfig(base_config, tts_model)
        F(field, key, default) == Get(data, field, Get(base_config, key, default))
    IN  [creativity |-> Float(F("creativity", "creativity", "0.7")),
         conversation_style |-> F("conversation_style", "conversation_style", "[]"),
         roles_person1 |-> F("roles_person1", "roles_person1", None),
         roles_person2 |-> F("roles_person2", "roles_person2", None),
         dialogue_structure |-> F("dialogue_structure", "dialogue_structure", "[]"),
         podcast_name |-> F("name", "podcast_name", None),
         podcast_tagline |-> F("tagline", "podcast_tagline", None),
         output_language |-> F("output_language", "output_language", "English"),
         user_instructions |-> F("user_instructions", "user_instructions", ""),
         engagement_techniques |-> F("engagement_techniques", "engagement_techniques", "[]"),
         text_to_speech |->
            [default_tts_model |-> tts_model,
             model |-> Get(tts_base_config, "model", None),
             default_voices |->
                [question |-> ResolveVoice(data, tts_base_config, "question"),
                 answer |-> ResolveVoice(data, tts_base_config, "answer")]]]

\* a dict as the interpreter holds it: its text_to_speech dict is an object of
\* its own, stored at addr
TopOf(d, addr) == [k \in DOMAIN d |-> IF k = TTS THEN addr ELSE d[k]]

\* line 116, conversation_config = merge_configs(base_config, user_config),
\* read through the heap as the generator reads it
ConversationConfig(base_config, user_config) ==
    LET h == (BaseAddr :> Get(base_config, TTS, EmptyDict))
             @@ (UserAddr :> Get(user_config, TTS, EmptyDict))
        r == merge_configs(TopOf(base_config, BaseAddr), TopOf(user_config, UserAddr), h)
    IN  Deref(r.merged, r.heap)

\* lines 119-124: the arguments of generate_podcast
GeneratorArgs(data, base_config) ==
    [urls |-> Get(data, "urls", "[]"),
     conversation_config |-> ConversationConfig(base_config, UserConfig(data, base_config)),
     tts_model |-> ResolveTtsModel(data, base_config),
     longform |-> Get(data, "is_long_form", FALSE)]

\* the exception lines 83-116 raise, NoError when they raise none
SetupError(data, base_config) ==
    LET v == Get(data, "creativity", Get(base_config, "creativity", "0.7"))
    IN  IF FloatRaises(v) THEN FloatError(v) ELSE NoError

----------------------------------------------------------------------------
(* generate_podcast_endpoint: the result and the request boundary *)

Hex == {"00000000000000a" \o ToString(i) : i \in 1..NumNames}
\* lines 128 and 133
FilenameOf(hex) == "podcast_" \o hex \o ".mp3"
Filenames == {FilenameOf(x) : x \in Hex}

GeneratedPath == "/data/audio/podcast.mp3"
InvalidResult == "Invalid result format or no audio generated"

\* what generate_podcast can do: raise, or return a path string (a file or not),
\* an object with an audio_path (populated or empty, the file there or not),
\* or a value with no audio_path
GeneratorOutcomes ==
    {[kind |-> "raise", path |-> "", isfile |-> FALSE],
     [kind |-> "str", path |-> GeneratedPath, isfile |-> TRUE],
     [kind |-> "str", path |-> GeneratedPath, isfile |-> FALSE],
     [kind |-> "object", path |-> GeneratedPath, isfile |-> TRUE],
     [kind |-> "object", path |-> GeneratedPath, isfile |-> FALSE],
     [kind |-> "object", path |-> "", isfile |-> FALSE],
     [kind |-> "none", path |-> "", isfile |-> FALSE]}

GeneratorError == Error("Exception", "generation failed")

\* lines 119-138: the exception the call and the result handling raise, NoError
\* when the artifact is copied (shutil.copy2 raises on a missing source)
ResultError(out) ==
    CASE out.kind = "raise" -> GeneratorError
      [] out.kind = "str" /\ out.isfile -> NoError
      [] out.kind = "object" /\ Truthy(out.path) ->
            IF out.isfile THEN NoError
            ELSE Error("FileNotFoundError",
                       "[Errno 2] No such file or directory: '" \o out.path \o "'")
      [] OTHER -> Error("HTTPException", InvalidResult)

\* str(e) of line 141.  An HTTPException built with keyword arguments has no
\* args: its str() is "" (Exception.__str__), or "<status>: <detail>" where
\* Starlette defines HTTPException.__str__
Str(e) ==
    IF e.type = "HTTPException" THEN {"", "500: " \o e.msg} ELSE {e.msg}

\* lines 140-141, and FastAPI's rendering of the HTTPException
ErrorResponse(detail) == [status |-> 500, body |-> [detail |-> detail]]

\* lines 131 and 136
GenerateResponse(filename) ==
    [status |-> 200, body |-> [audioUrl |-> "/audio/" \o filename]]

\* lines 129-130 and 134-135, shutil.copy2(source, TEMP_DIR/filename)
StoreArtifact(dir, filename, content) ==
    [f \in DOMAIN dir \cup {filename} |-> IF f = filename THEN content ELSE dir[f]]

\* the bytes of the file the generator wrote
ContentOf(path) == "audio of " \o path

----------------------------------------------------------------------------
(* serve_audio, healthcheck, root: src/main.py:143-168 *)

\* serve_audio answering 404 whatever the directory holds
serve_audio_never(dir, filename) ==
    [status |-> 404, body |-> [detail |-> "File not found"]]

\* lines 146-149
serve_audio(dir, filename) ==
    IF filename \notin DOMAIN dir
    THEN [status |-> 404, body |-> [detail |-> "File not found"]]
    ELSE [status |-> 200, media_type |-> "audio/mpeg", filename |-> filename,
          body |-> dir[filename]]

\* line 154
healthcheck ==
    [status |-> 200,
     body |-> [status |-> "healthy", message |-> "Podcastfy.ai API is running"]]

\* lines 159-168
root ==
    [status |-> 200, body |-> [name |-> "Podcastfy.ai API", version |-> "0.4.1"]]

----------------------------------------------------------------------------
(* The server: uvicorn.run(app) of src/main.py:176-182 runs every handler on *)
(* one event loop.  The handlers are async def and hold no await, so a       *)
(* handler runs from its first line to its response without another one      *)
(* starting; the call of generate_podcast (line 119) is made on the loop.    *)

Conns == 1..NumConns
Creds == {"k" \o ToString(i) : i \in 1..MaxCred}
AudioNames == Filenames \cup {"doesnotexist.mp3"}

NoResponse == [status |-> 0, body |-> EmptyDict]
IdleConn ==
    [pc |-> "idle", endpoint |-> "", data |-> EmptyDict, filename |-> "",
     ncalls |-> 0, args |-> EmptyDict, resp |-> NoResponse, cause |-> NoError]

\* the configuration documents on disk
Engine(model, voices) == [model |-> model, default_voices |-> voices]
FullDoc ==
    [creativity |-> "1", podcast_name |-> "PODCASTFY", output_language |-> "French",
     text_to_speech |->
        [default_tts_model |-> "elevenlabs",
         openai |-> Engine("tts-1-hd", [question |-> "echo", answer |-> "shimmer"]),
         elevenlabs |-> Engine("eleven_multilingual_v2",
                               [question |-> "Q1", answer |-> "A1"])]]
PartialDoc ==
    [podcast_name |-> "PODCASTFY",
     text_to_speech |-> [openai |-> [default_voices |-> [question |-> "Q1"]]]]
NoTtsDoc == [creativity |-> "0.9", podcast_name |-> "PODCASTFY"]
Unreadable == [readable |-> FALSE, doc |-> EmptyDict]
ConfigFiles ==
    {Unreadable} \cup {[readable |-> TRUE, doc |-> d] : d \in {FullDoc, PartialDoc, NoTtsDoc}}

\* /generate bodies that carry credentials: at most MaxFields of the three
\* fields, each null, empty or a key
CredentialBodies ==
    {d \in Dicts({FieldOf(p) : p \in Providers}, Creds \cup {None, ""}) :
        Cardinality(DOMAIN d) <= MaxFields}

\* /generate bodies that select the engine and the voices
TtsParts == {EmptyDict} \cup {[tts_model |-> m] : m \in {None, "openai", "elevenlabs"}}
VoiceParts ==
    {EmptyDict, [voices |-> EmptyDict], [voices |-> [question |-> "V1"]],
     [voices |-> [question |-> "V1", answer |-> "V2"]]}
ExtraParts ==
    {EmptyDict,
     [urls |-> "['http://example.com']", name |-> "My Podcast", is_long_form |-> TRUE]}
ConfigBodies == {t @@ v @@ x : t \in TtsParts, v \in VoiceParts, x \in ExtraParts}

\* a body whose creativity float() rejects
BadBodies == {[creativity |-> None]}

\* /generate bodies with no credentials: the URL list alone, nothing at all, and
\* the rejected creativity
PlainBodies == {EmptyDict, [urls |-> "['http://example.com']"]} \cup BadBodies

LoopFree == \A c \in Conns : conn[c].pc # "in_generator"

\* history: the non-empty credentials of a body become the last ones supplied
SuppliedAfter(sup, data) ==
    [p \in Providers |->
        IF FieldOf(p) \in DOMAIN data /\ data[FieldOf(p)] \notin {None, ""}
        THEN data[FieldOf(p)] ELSE sup[p]]

MergeIdle ==
    /\ arg_base = EmptyDict
    /\ arg_user = EmptyDict
    /\ heap = (BaseAddr :> EmptyDict) @@ (UserAddr :> EmptyDict)
    /\ ret = NotCalled
    /\ before = [base |-> arg_base, user |-> arg_user, heap |-> heap]

ServerInit(files, bodies) ==
    /\ config_file \in files
    /\ workload = bodies
    /\ environ = [p \in Providers |-> Unset]
    /\ temp_dir = EmptyDict
    /\ conn = [c \in Conns |-> IdleConn]
    /\ supplied = [p \in Providers |-> Unset]
    /\ served = {}

ServerIdle ==
    /\ config_file = Unreadable
    /\ workload = {}
    /\ environ = [p \in Providers |-> Unset]
    /\ temp_dir = EmptyDict
    /\ conn = [c \in Conns |-> IdleConn]
    /\ supplied = [p \in Providers |-> Unset]
    /\ served = {}

\* a client sends a request; it waits until the event loop takes it
Send(c, endpoint, data, filename) ==
    /\ conn[c].pc = "idle"
    /\ conn' = [conn EXCEPT ![c] = [IdleConn EXCEPT !.pc = "pending",
                    !.endpoint = endpoint, !.data = data, !.filename = filename]]
    /\ UNCHANGED <<config_file, environ, temp_dir, workload, supplied, served>>
    /\ UNCHANGED mvars

PostGenerate(c) == \E data \in workload : Send(c, "generate", data, "")
GetAudio(c) == \E f \in AudioNames : Send(c, "audio", EmptyDict, f)
GetHealth(c) == Send(c, "health", EmptyDict, "")
GetRoot(c) == Send(c, "root", EmptyDict, "")

\* the response leaves the server; ncalls stays as the count of generator calls
Respond(c, resp, cause) ==
    conn' = [conn EXCEPT ![c].pc = "responded", ![c].resp = resp, ![c].cause = cause,
                         ![c].data = EmptyDict, ![c].args = EmptyDict]

\* lines 66-124: the handler from its start into the call of generate_podcast,
\* or to the 500 of lines 140-141 when a step before the call raises
GenerateEnter(c) ==
    /\ conn[c].pc = "pending" /\ conn[c].endpoint = "generate"
    /\ LoopFree
    /\ LET data == conn[c].data
           base_config == load_base_config(config_file)
           err == SetupError(data, base_config)
       IN  /\ environ' = SetCredentials(environ, data)
           /\ supplied' = SuppliedAfter(supplied, data)
           /\ IF err # NoError
              THEN \E detail \in Str(err) : Respond(c, ErrorResponse(detail), err)
              ELSE conn' = [conn EXCEPT ![c].pc = "in_generator",
                               ![c].ncalls = @ + 1,
                               ![c].args = GeneratorArgs(data, base_config)]
    /\ UNCHANGED <<config_file, temp_dir, workload, served>>
    /\ UNCHANGED mvars

\* lines 119-141: generate_podcast returns or raises, the result is stored or
\* refused, and the request is answered
GenerateReturn(c) ==
    /\ conn[c].pc = "in_generator"
    /\ \E out \in GeneratorOutcomes, hex \in Hex :
          LET err == ResultError(out)
              filename == FilenameOf(hex)
          IN  IF err = NoError
              THEN /\ temp_dir' = StoreArtifact(temp_dir, filename, ContentOf(out.path))
                   /\ served' = served \cup {filename}
                   /\ Respond(c, GenerateResponse(filename), NoError)
              ELSE /\ \E detail \in Str(err) : Respond(c, ErrorResponse(detail), err)
                   /\ UNCHANGED <<temp_dir, served>>
    /\ UNCHANGED <<config_file, environ, workload, supplied>>
    /\ UNCHANGED mvars

\* a handler that answers without touching the state
Answer(c, endpoint, resp) ==
    /\ conn[c].pc = "pending" /\ conn[c].endpoint = endpoint
    /\ LoopFree
    /\ Respond(c, resp, NoError)
    /\ UNCHANGED <<config_file, environ, temp_dir, workload, supplied, served>>
    /\ UNCHANGED mvars

ServeAudio(c) == Answer(c, "audio", serve_audio(temp_dir, conn[c].filename))
Health(c) == Answer(c, "health", healthcheck)
Root(c) == Answer(c, "root", root)

\* the steps the event loop can take for a waiting request
Handle(c) == GenerateEnter(c) \/ ServeAudio(c) \/ Health(c) \/ Root(c)

\* the client reads the response
Receive(c) ==
    /\ conn[c].pc = "responded"
    /\ conn' = [conn EXCEPT ![c] = IdleConn]
    /\ UNCHANGED <<config_file, environ, temp_dir, workload, supplied, served>>
    /\ UNCHANGED mvars

----------------------------------------------------------------------------
(* Specifications *)

Next ==
    \E c \in Conns :
        \/ PostGenerate(c)
        \/ GetAudio(c)
        \/ GetHealth(c)
        \/ GetRoot(c)
        \/ GenerateEnter(c)
        \/ GenerateReturn(c)
        \/ ServeAudio(c)
        \/ Health(c)
        \/ Root(c)
        \/ Receive(c)

\* clients that post no credentials, over a readable and an unreadable base config
Init ==
    /\ MergeIdle
    /\ ServerInit({Unreadable, [readable |-> TRUE, doc |-> FullDoc]}, PlainBodies)

Spec == Init /\ [][Next]_vars

\* clients that post credentials
InitCreds ==
    /\ MergeIdle
    /\ ServerInit({Unreadable, [readable |-> TRUE, doc |-> FullDoc]}, CredentialBodies)

SpecCreds == InitCreds /\ [][Next]_vars

\* clients that select engines and voices, over every base config
InitConfig == MergeIdle /\ ServerInit(ConfigFiles, ConfigBodies)

SpecConfig == InitConfig /\ [][Next]_vars

\* merge_configs on its own, over every pair of arguments within the bounds
InitMerge == MergeInit /\ ServerIdle

NextMerge == CallMerge /\ UNCHANGED svars

SpecMerge == InitMerge /\ [][NextMerge]_vars

----------------------------------------------------------------------------
(* Claims about merge_configs, checked under SpecMerge *)

\* the text_to_speech sub-map a top-level dict holds, read through heap h
SubMap(top, h) == h[top[TTS]]

\* C1: for every top-level key k other than text_to_speech, the merged dict
\* holds override[k] when the override has k with a non-null value, otherwise
\* base[k], and no k when base has none; a null override value replaces
\* nothing, and merging the empty override returns a dict equal to base.
C1_TopLevelPrecedence ==
    ret.called =>
        /\ DOMAIN ret.merged \subseteq OtherKeys \cup {TTS}
        /\ \A k \in OtherKeys :
              IF k \in DOMAIN before.user /\ before.user[k] # None
              THEN k \in DOMAIN ret.merged /\ ret.merged[k] = before.user[k]
              ELSE IF k \in DOMAIN before.base
                   THEN k \in DOMAIN ret.merged /\ ret.merged[k] = before.base[k]
                   ELSE k \notin DOMAIN ret.merged
        /\ (before.user = EmptyDict =>
               Deref(ret.merged, heap) = Deref(before.base, before.heap))

\* a call where one key is overridden by a different value and another key's
\* null override leaves the base value in place
C1_Witness ==
    /\ ret.called
    /\ before.base = [creativity |-> "1", podcast_name |-> "1"]
    /\ before.user = [creativity |-> "2", podcast_name |-> None]
    /\ ret.merged = [creativity |-> "2", podcast_name |-> "1"]

\* C2: when both arguments hold text_to_speech, the result's sub-map has
\* exactly the sub-keys of the two sub-maps, the override's value on every
\* override sub-key and the base's value on the other base sub-keys.
C2_SubMapUnion ==
    (ret.called /\ TTS \in DOMAIN before.base /\ TTS \in DOMAIN before.user) =>
        /\ TTS \in DOMAIN ret.merged
        /\ LET sub == SubMap(ret.merged, heap)
               b == SubMap(before.base, before.heap)
               u == SubMap(before.user, before.heap)
           IN  /\ DOMAIN sub = DOMAIN b \cup DOMAIN u
               /\ \A k \in DOMAIN u : sub[k] = u[k]
               /\ \A k \in DOMAIN b \ DOMAIN u : sub[k] = b[k]

\* base {a:1, b:2} merged with override {b:1, c:2} gives {a:1, b:1, c:2}
C2_Witness ==
    /\ ret.called
    /\ TTS \in DOMAIN before.base /\ TTS \in DOMAIN before.user
    /\ SubMap(before.base, before.heap) = [a |-> "1", b |-> "2"]
    /\ SubMap(before.user, before.heap) = [b |-> "1", c |-> "2"]
    /\ SubMap(ret.merged, heap) = [a |-> "1", b |-> "1", c |-> "2"]

\* C3: when only one argument holds text_to_speech the result holds that
\* side's value: base's sub-map unchanged when the override has none, the
\* override's sub-map as it is when base has none.
C3_OneSidedTts ==
    ret.called =>
        /\ (TTS \in DOMAIN before.base /\ TTS \notin DOMAIN before.user) =>
              /\ TTS \in DOMAIN ret.merged
              /\ SubMap(ret.merged, heap) = SubMap(before.base, before.heap)
        /\ (TTS \notin DOMAIN before.base /\ TTS \in DOMAIN before.user) =>
              /\ TTS \in DOMAIN ret.merged
              /\ SubMap(ret.merged, heap) = SubMap(before.user, before.heap)

\* C4: after the call both arguments are as they were before it, the nested
\* text_to_speech sub-map of base included.
C4_ArgumentsUntouched ==
    ret.called =>
        /\ Deref(arg_base, heap) = Deref(before.base, before.heap)
        /\ Deref(arg_user, heap) = Deref(before.user, before.heap)

----------------------------------------------------------------------------
(* Claims about the server, checked under Spec, SpecCreds and SpecConfig *)

GenerateAnswered(c) == conn[c].pc = "responded" /\ conn[c].endpoint = "generate"

\* C5: every failure inside a /generate request ends it with a 500 whose
\* detail is the message of the underlying error, no failure answers 200, and
\* no request calls the generator twice.
C5_FailuresAre500 ==
    \A c \in Conns :
        /\ conn[c].ncalls <= 1
        /\ GenerateAnswered(c) =>
              IF conn[c].cause # NoError
              THEN /\ conn[c].resp.status = 500
                   /\ conn[c].resp.body = [detail |-> conn[c].cause.msg]
              ELSE conn[c].resp.status = 200

\* the event loop answers the GET /audio request of connection c in this step
AudioAnswered(c) ==
    /\ conn[c].pc = "pending" /\ conn[c].endpoint = "audio"
    /\ conn'[c].pc = "responded"

C7_OthersHandled ==
    \A c1, c2 \in Conns :
        (conn[c1].pc = "in_generator" /\ conn[c2].pc = "pending") => ENABLED Handle(c2)

\* C8: for each provider the credential variable holds the non-empty value a
\* request supplied last, in every state and so during every generator call,
\* and it is never None or empty.
C8_LastWriteWins ==
    \A p \in Providers :
        /\ supplied[p] # Unset => environ[p] = supplied[p]
        /\ environ[p] \notin {None, ""}

\* a generator call of a request that names no credential for a provider runs
\* with the value an earlier request set
C8_Witness ==
    \E c \in Conns, p \in Providers :
        /\ conn[c].pc = "in_generator"
        /\ FieldOf(p) \notin DOMAIN conn[c].data
        /\ supplied[p] \in Creds
        /\ environ[p] = supplied[p]

\* the base configuration the requests of this run see
BaseDoc == IF config_file.readable THEN config_file.doc ELSE EmptyDict

\* C9: the generator is called with the request's tts_model when the request
\* has one, else with base text_to_speech.default_tts_model when base has one,
\* else with "openai", and never with None.
C9_TtsModelResolved ==
    \A c \in Conns :
        conn[c].pc = "in_generator" =>
            LET data == conn[c].data
                expected ==
                    IF "tts_model" \in DOMAIN data /\ data["tts_model"] # None
                    THEN data["tts_model"]
                    ELSE IF TTS \in DOMAIN BaseDoc
                            /\ "default_tts_model" \in DOMAIN BaseDoc[TTS]
                         THEN BaseDoc[TTS]["default_tts_model"]
                         ELSE "openai"
            IN  /\ conn[c].args.tts_model = expected
                /\ conn[c].args.tts_model # None

\* the voice a conversation_config carries for a role, None when it has none
CarriedVoice(cc, role) ==
    IF TTS \in DOMAIN cc /\ "default_voices" \in DOMAIN cc[TTS]
       /\ role \in DOMAIN cc[TTS]["default_voices"]
    THEN cc[TTS]["default_voices"][role]
    ELSE None

\* C10: the conversation_config given to the generator carries, for each role,
\* the voice the request supplied, else the default voice of the resolved
\* engine in base, else no voice.
C10_VoicesResolved ==
    \A c \in Conns, role \in {"question", "answer"} :
        conn[c].pc = "in_generator" =>
            LET data == conn[c].data
                engine == conn[c].args.tts_model
                voices == IF "voices" \in DOMAIN data THEN data["voices"] ELSE EmptyDict
                hasDefault ==
                    /\ TTS \in DOMAIN BaseDoc
                    /\ engine \in DOMAIN BaseDoc[TTS]
                    /\ "default_voices" \in DOMAIN BaseDoc[TTS][engine]
                    /\ role \in DOMAIN BaseDoc[TTS][engine]["default_voices"]
                expected ==
                    IF role \in DOMAIN voices THEN voices[role]
                    ELSE IF hasDefault THEN BaseDoc[TTS][engine]["default_voices"][role]
                         ELSE None
            IN  CarriedVoice(conn[c].args.conversation_config, role) = expected

====
